---- MODULE Spec2Model ----
(***************************************************************************)
(* Model of wubi-table: the Wubi code encoder and the two code tables of   *)
(* src/table.rs, and the build pipeline of src/main.rs.                    *)
(*                                                                         *)
(* Bytes and characters are integers (a byte's value, a character's        *)
(* Unicode scalar value); byte strings and phrases are sequences of them.  *)
(* Rust compares Vec<u8> and String lexicographically by bytes, and UTF-8  *)
(* keeps the order of scalar values, so both orders are LexLess below.     *)
(***************************************************************************)
EXTENDS Integers, Sequences, FiniteSets, TLC

VARIABLES
    \* code encoder (table.rs, TryFrom / From)
    value, parsed, rendered, reparsed,
    \* code ordering
    lhs, rhs, byIndex, byBytes,
    \* phrase encoder
    phrase, charCodes, phraseIndex, phraseBytes,
    \* Table of table.rs
    code_to_char, char_to_code, code_to_phrases, phrase_to_code, tableResult,
    \* main.rs pipeline
    pc, err, entries, reading, reverseOut, tableOut,
    \* what has been read so far, in reading order (history, read by no action)
    history

vars == <<value, parsed, rendered, reparsed, lhs, rhs, byIndex, byBytes,
          phrase, charCodes, phraseIndex, phraseBytes,
          code_to_char, char_to_code, code_to_phrases, phrase_to_code, tableResult,
          pc, err, entries, reading, reverseOut, tableOut, history>>

codeVars == <<value, parsed, rendered, reparsed>>
orderVars == <<lhs, rhs, byIndex, byBytes>>
phraseVars == <<phrase, charCodes, phraseIndex, phraseBytes>>
tableVars == <<code_to_char, char_to_code, code_to_phrases, phrase_to_code, tableResult>>
mainVars == <<pc, err, entries, reading, reverseOut, tableOut, history>>

\* what an action of one part leaves alone
notCode == <<orderVars, phraseVars, tableVars, mainVars>>
notOrder == <<codeVars, phraseVars, tableVars, mainVars>>
notPhrase == <<codeVars, orderVars, tableVars, mainVars>>
notTable == <<codeVars, orderVars, phraseVars, mainVars>>
notMain == <<codeVars, orderVars, phraseVars, tableVars>>

\* A result not computed yet, and Option::None where the value is a record.
None == [ok |-> FALSE, err |-> "none"]
\* Option<char>::None and Option<WubiCode>::None in the tables.
NoChar == 0
NoCode == 0 - 1

(***************************************************************************)
(* Bounds of the model.                                                    *)
(***************************************************************************)
MaxInputLen == 5

(***************************************************************************)
(* Generic helpers.                                                        *)
(***************************************************************************)
SeqsUpTo(S, n) == UNION {[1..k -> S] : k \in 0..n}

Take(s, n) == SubSeq(s, 1, IF n < Len(s) THEN n ELSE Len(s))

\* Ord::cmp on slices: lexicographic, a proper prefix is less.
RECURSIVE LexLess(_, _)
LexLess(s, t) ==
    IF t = <<>> THEN FALSE
    ELSE IF s = <<>> THEN TRUE
    ELSE IF Head(s) # Head(t) THEN Head(s) < Head(t)
    ELSE LexLess(Tail(s), Tail(t))

(***************************************************************************)
(* The code encoder of table.rs.                                           *)
(***************************************************************************)
INDEX_UPPER_BOUND == 26 ^ 4

ByteA == 97
ByteY == 121
CodeMaxLen == 4

Ok(x) == [ok |-> TRUE, val |-> x]
Error(e) == [ok |-> FALSE, err |-> e]

\* The letter's digit: (ch - b'a' + 1) as u32.
LetterDigitOffByOne(ch) == ch - ByteA
LetterDigit(ch) == ch - ByteA + 1

\* The loop of try_from: len counts down from 4, one digit per byte.  The
\* u32 sums here and in get_code_for_phrase stay below 4 * 26^4: none wraps.
RECURSIVE ParseLoop(_, _, _)
ParseLoop(bytes, len, index) ==
    IF bytes = <<>> THEN Ok(index)
    ELSE LET ch == Head(bytes)
             len1 == len - 1
         IN  IF ch >= ByteA /\ ch <= ByteY
             THEN ParseLoop(Tail(bytes), len1,
                            (index + LetterDigit(ch) * (26 ^ len1)))
             ELSE Error("NotValidChar")

\* impl TryFrom<&[u8]> for WubiCode
TryFromLenFirstLoop(bytes) ==
    IF Len(bytes) = 0 THEN Error("Empty")
    ELSE ParseLoop(Take(bytes, CodeMaxLen), CodeMaxLen, 0)
TryFrom(bytes) ==
    IF Len(bytes) = 0 THEN Error("Empty")
    ELSE IF Len(bytes) >= CodeMaxLen + 1 THEN Error("TooLongCode")
    ELSE ParseLoop(bytes, CodeMaxLen, 0)

\* impl From<WubiCode> for Vec<u8>: the digits from the left, up to the first
\* zero digit; a zero first digit panics.
FromNoStop(index) ==
    LET d1 == index \div (26 ^ 3)
        d2 == (index % (26 ^ 3)) \div (26 ^ 2)
        d3 == (index % (26 ^ 2)) \div 26
        d4 == index % 26
    IN  IF d1 = 0 THEN Error("panic")
        ELSE Ok(<<d1 - 1 + ByteA, d2 - 1 + ByteA, d3 - 1 + ByteA, d4 - 1 + ByteA>>)
From(index) ==
    LET byte1 == index \div (26 ^ 3)
        r1 == index % (26 ^ 3)
        byte2 == r1 \div (26 ^ 2)
        r2 == r1 % (26 ^ 2)
        byte3 == r2 \div (26 ^ 1)
        byte4 == r2 % (26 ^ 1)
    IN  IF byte1 = 0 THEN Error("panic")
        ELSE IF byte2 = 0 THEN Ok(<<(byte1 % 256) - 1 + ByteA>>)
        ELSE IF byte3 = 0 THEN Ok(<<(byte1 % 256) - 1 + ByteA, (byte2 % 256) - 1 + ByteA>>)
        ELSE IF byte4 = 0
             THEN Ok(<<(byte1 % 256) - 1 + ByteA, (byte2 % 256) - 1 + ByteA,
                       ((byte3 - 1) % 256) + ByteA>>)
        ELSE Ok(<<(byte1 % 256) - 1 + ByteA, (byte2 % 256) - 1 + ByteA,
                  ((byte3 - 1) % 256) + ByteA, ((byte4 - 1) % 256) + ByteA>>)

\* Input bytes: NUL, '`' (just below 'a'), 'a', 'b', 'y', 'z' (just above 'y').
ByteSample == {0, 96, 97, 98, 121, 122}

IsValidCodeString(bytes) ==
    /\ Len(bytes) >= 1
    /\ Len(bytes) <= CodeMaxLen
    /\ \A i \in 1..Len(bytes) : bytes[i] >= ByteA /\ bytes[i] <= ByteY

InitCode ==
    /\ value \in SeqsUpTo(ByteSample, MaxInputLen)
    /\ parsed = None
    /\ rendered = None
    /\ reparsed = None

CodeIdle ==
    /\ value = <<>>
    /\ parsed = None
    /\ rendered = None
    /\ reparsed = None

\* WubiCode::try_from(value)
Parse ==
    /\ parsed = None
    /\ parsed' = TryFrom(value)
    /\ UNCHANGED <<value, rendered, reparsed>>
    /\ UNCHANGED notCode

\* Vec::from(code) on a parsed code
Render ==
    /\ parsed # None
    /\ parsed.ok
    /\ rendered = None
    /\ rendered' = From(parsed.val)
    /\ UNCHANGED <<value, parsed, reparsed>>
    /\ UNCHANGED notCode

\* WubiCode::try_from on the rendered bytes
Reparse ==
    /\ rendered # None
    /\ rendered.ok
    /\ reparsed = None
    /\ reparsed' = TryFrom(rendered.val)
    /\ UNCHANGED <<value, parsed, rendered>>
    /\ UNCHANGED notCode

(***************************************************************************)
(* Code ordering: the dense arrays of table.rs are walked in index order,  *)
(* main.rs sorts the entries by their code bytes.                          *)
(***************************************************************************)
LetterSample == {97, 98, 121}

ValidCodeSample == {s \in SeqsUpTo(LetterSample, CodeMaxLen) : Len(s) >= 1}

\* The order of the enumerate() walks of code_to_char / code_to_phrases.
IndexLess(c1, c2) == c1 < c2

\* a.wubi_code.cmp(&b.wubi_code) == Less
CodeBytesLess(a, b) == LexLess(a, b)

InitOrder ==
    /\ lhs \in ValidCodeSample
    /\ rhs \in ValidCodeSample
    /\ byIndex = None
    /\ byBytes = None

OrderIdle ==
    /\ lhs = <<>>
    /\ rhs = <<>>
    /\ byIndex = None
    /\ byBytes = None

CompareIndex ==
    /\ byIndex = None
    /\ byIndex' = Ok(IndexLess(TryFrom(lhs).val, TryFrom(rhs).val))
    /\ UNCHANGED <<lhs, rhs, byBytes>>
    /\ UNCHANGED notOrder

CompareBytes ==
    /\ byBytes = None
    /\ byBytes' = Ok(CodeBytesLess(lhs, rhs))
    /\ UNCHANGED <<lhs, rhs, byIndex>>
    /\ UNCHANGED notOrder

(***************************************************************************)
(* The phrase encoder: get_code_for_phrase of table.rs (on indices) and    *)
(* the splicing of extend_phrases of main.rs (on code bytes).              *)
(***************************************************************************)
MaxPhraseLen == 5

\* get_code_for_phrase(phrase, char_code); cc is char_code as a function.
GetCodeForPhraseFourth(ph, cc) ==
    LET n == Len(ph)
    IN  IF n < 2 THEN Error("panic")
        ELSE IF n = 2
        THEN Ok((((cc[ph[1]] \div (26 ^ 2)) * (26 ^ 2)) + (cc[ph[2]] \div (26 ^ 2))))
        ELSE IF n = 3
        THEN Ok((((cc[ph[1]] \div (26 ^ 3)) * (26 ^ 3))
                 + ((cc[ph[2]] \div (26 ^ 3)) * (26 ^ 2))
                 + (cc[ph[3]] \div (26 ^ 2))))
        ELSE Ok((((cc[ph[1]] \div (26 ^ 3)) * (26 ^ 3))
                 + ((cc[ph[2]] \div (26 ^ 3)) * (26 ^ 2))
                 + ((cc[ph[3]] \div (26 ^ 3)) * (26 ^ 1))
                 + (cc[ph[4]] \div (26 ^ 3))))
GetCodeForPhrase(ph, cc) ==
    LET n == Len(ph)
    IN  IF n < 2 THEN Error("panic")
        ELSE IF n = 2
        THEN LET first == cc[ph[1]]
                 second == cc[ph[2]]
             IN  Ok((((first \div (26 ^ 2)) * (26 ^ 2)) + (second \div (26 ^ 2))))
        ELSE IF n = 3
        THEN LET first == cc[ph[1]]
                 second == cc[ph[2]]
                 third == cc[ph[3]]
             IN  Ok((((first \div (26 ^ 3)) * (26 ^ 3))
                     + ((second \div (26 ^ 3)) * (26 ^ 2))
                     + (third \div (26 ^ 2))))
        ELSE LET first == cc[ph[1]]
                 second == cc[ph[2]]
                 third == cc[ph[3]]
                 last == cc[ph[n]]
             IN  Ok((((first \div (26 ^ 3)) * (26 ^ 3))
                     + ((second \div (26 ^ 3)) * (26 ^ 2))
                     + ((third \div (26 ^ 3)) * (26 ^ 1))
                     + (last \div (26 ^ 3))))

\* slice::split_at_checked(mid).unwrap().0: panics when mid > len.
SplitAtChecked(v, mid) == IF mid <= Len(v) THEN Ok(SubSeq(v, 1, mid)) ELSE Error("panic")

\* The match of extend_phrases that computes wubi_code; lookup is
\* binary_search_code as a function from characters to a code or None.
\* Error("continue") is the `continue` of a phrase of fewer than 2 characters.
PhraseCodeBytes(ph, lookup) ==
    LET n == Len(ph)
        Piece(i, mid) == IF ~lookup[ph[i]].ok THEN Error("panic")
                         ELSE SplitAtChecked(lookup[ph[i]].val, mid)
        Chain(ps) == IF \E i \in 1..Len(ps) : ~ps[i].ok THEN Error("panic")
                     ELSE IF Len(ps) = 2 THEN Ok(ps[1].val \o ps[2].val)
                     ELSE IF Len(ps) = 3 THEN Ok(ps[1].val \o ps[2].val \o ps[3].val)
                     ELSE Ok(ps[1].val \o ps[2].val \o ps[3].val \o ps[4].val)
    IN  IF n < 2 THEN Error("continue")
        ELSE IF n = 2 THEN Chain(<<Piece(1, 2), Piece(2, 2)>>)
        ELSE IF n = 3 THEN Chain(<<Piece(1, 1), Piece(2, 1), Piece(3, 2)>>)
        ELSE Chain(<<Piece(1, 1), Piece(2, 1), Piece(3, 1), Piece(n, 1)>>)

\* Five characters and two assignments of codes to them: the 4-letter codes
\* abcd, efgh, ijkl, mnop, qrst, and codes of every length 1 to 4.
PhraseChars == {19968, 19969, 19970, 19971, 19972}

FullLengthCodes ==
    (19968 :> <<97, 98, 99, 100>>) @@ (19969 :> <<101, 102, 103, 104>>)
    @@ (19970 :> <<105, 106, 107, 108>>) @@ (19971 :> <<109, 110, 111, 112>>)
    @@ (19972 :> <<113, 114, 115, 116>>)

MixedLengthCodes ==
    (19968 :> <<97>>) @@ (19969 :> <<101, 102>>)
    @@ (19970 :> <<105, 106, 107>>) @@ (19971 :> <<121, 121, 121, 121>>)
    @@ (19972 :> <<121>>)

InitPhrase ==
    /\ phrase \in SeqsUpTo(PhraseChars, MaxPhraseLen)
    /\ charCodes \in {FullLengthCodes, MixedLengthCodes}
    /\ phraseIndex = None
    /\ phraseBytes = None

PhraseIdle ==
    /\ phrase = <<>>
    /\ charCodes = <<>>
    /\ phraseIndex = None
    /\ phraseBytes = None

\* get_code_for_phrase(phrase, |ch| code of ch)
EncodeIndex ==
    /\ phraseIndex = None
    /\ phraseIndex' = GetCodeForPhrase(phrase,
                          [ch \in PhraseChars |-> TryFrom(charCodes[ch]).val])
    /\ UNCHANGED <<phrase, charCodes, phraseBytes>>
    /\ UNCHANGED notPhrase

\* the wubi_code of extend_phrases for this phrase
EncodeBytes ==
    /\ phraseBytes = None
    /\ phraseBytes' = PhraseCodeBytes(phrase, [ch \in PhraseChars |-> Ok(charCodes[ch])])
    /\ UNCHANGED <<phrase, charCodes, phraseIndex>>
    /\ UNCHANGED notPhrase

(***************************************************************************)
(* SimplifiedCodeTable, FullCodeTable and Table of table.rs.  The dense    *)
(* arrays are functions over the sampled codes and characters; a HashMap   *)
(* is a function to None for the keys it does not hold.                    *)
(***************************************************************************)
CHAR_MIN == 11955
CHAR_MAX == 40959
CharCapacity == 3

\* two characters of the accepted range and 'A', which is outside it
CharSample == <<19968, 19969, 65>>
CharX == CharSample[1]
CharY == CharSample[2]
CharOutOfRange == CharSample[3]

\* indices of the codes a, b, ab, abc
SimplifiedCodes == {TryFrom(<<97>>).val, TryFrom(<<98>>).val,
                    TryFrom(<<97, 98>>).val, TryFrom(<<97, 98, 99>>).val}
FullCodes == {TryFrom(<<97>>).val, TryFrom(<<98>>).val}
TableCodes == SimplifiedCodes \cup FullCodes
TableChars == {CharX, CharY, CharOutOfRange}
TablePhrases == {<<CharX>>, <<CharY>>, <<CharX, CharY>>}

InRange(ch) == ch >= CHAR_MIN /\ ch <= CHAR_MAX
RangeChars == {ch \in TableChars : InRange(ch)}

Elems(s) == {s[i] : i \in 1..Len(s)}

\* a panic ends the process
Panicked == tableResult \in {"panic: list full", "panic: phrase exists"}

\* SimplifiedCodeTable::new, FullCodeTable::new
InitTable ==
    /\ code_to_char = [c \in TableCodes |-> NoChar]
    /\ char_to_code = [ch \in RangeChars |-> <<>>]
    /\ code_to_phrases = [c \in TableCodes |-> <<>>]
    /\ phrase_to_code = [p \in TablePhrases |-> NoCode]
    /\ tableResult = "none"

TableIdle ==
    /\ code_to_char = <<>>
    /\ char_to_code = <<>>
    /\ code_to_phrases = <<>>
    /\ phrase_to_code = <<>>
    /\ tableResult = "none"

\* an insert without the test of the slot: the later character replaces the
\* earlier one
SimplifiedInsertOverwrite(code, ch) ==
    /\ code_to_char' = [code_to_char EXCEPT ![code] = ch]
    /\ IF InRange(ch)
       THEN IF Len(char_to_code[ch]) = CharCapacity
            THEN /\ tableResult' = "panic: list full"
                 /\ UNCHANGED char_to_code
            ELSE /\ char_to_code' = [char_to_code EXCEPT ![ch] = Append(@, code)]
                 /\ tableResult' = "Ok"
       ELSE /\ tableResult' = "NotValidChar"
            /\ UNCHANGED char_to_code

\* SimplifiedCodeTable::insert(code, ch).  The slot is written before the
\* character's range is looked at; ArrayVec::push panics on a full list.
SimplifiedInsertBody(code, ch) ==
    IF code_to_char[code] # NoChar
    THEN /\ tableResult' = "Invalid"
         /\ UNCHANGED <<code_to_char, char_to_code>>
    ELSE /\ code_to_char' = [code_to_char EXCEPT ![code] = ch]
         /\ IF InRange(ch)
            THEN IF Len(char_to_code[ch]) = CharCapacity
                 THEN /\ tableResult' = "panic: list full"
                      /\ UNCHANGED char_to_code
                 ELSE /\ char_to_code' = [char_to_code EXCEPT ![ch] = Append(@, code)]
                      /\ tableResult' = "Ok"
            ELSE /\ tableResult' = "NotValidChar"
                 /\ UNCHANGED char_to_code

SimplifiedInsert ==
    /\ ~Panicked
    /\ \E code \in SimplifiedCodes, ch \in TableChars : SimplifiedInsertBody(code, ch)
    /\ UNCHANGED <<code_to_phrases, phrase_to_code>>
    /\ UNCHANGED notTable

\* FullCodeTable::insert(entry): an entry whose phrase is already a key panics.
FullInsertNoCheck(p, code) ==
    /\ phrase_to_code' = [phrase_to_code EXCEPT ![p] = code]
    /\ code_to_phrases' = [code_to_phrases EXCEPT ![code] = Append(@, p)]
    /\ tableResult' = "Ok"
FullInsertBody(p, code) ==
    IF phrase_to_code[p] # NoCode
    THEN /\ tableResult' = "panic: phrase exists"
         /\ UNCHANGED <<phrase_to_code, code_to_phrases>>
    ELSE /\ phrase_to_code' = [phrase_to_code EXCEPT ![p] = code]
         /\ code_to_phrases' = [code_to_phrases EXCEPT ![code] = Append(@, p)]
         /\ tableResult' = "Ok"

FullInsert ==
    /\ ~Panicked
    /\ \E p \in TablePhrases, code \in FullCodes : FullInsertBody(p, code)
    /\ UNCHANGED <<code_to_char, char_to_code>>
    /\ UNCHANGED notTable

\* Iterator::skip_while
RECURSIVE SkipWhileNot(_, _)
SkipWhileNot(s, x) ==
    IF s = <<>> THEN <<>>
    ELSE IF Head(s) # x THEN SkipWhileNot(Tail(s), x)
    ELSE s

\* The phrases Table::reverse_filtered_full_table yields for a code; the empty
\* list stands for a code the iterator leaves out.
ReverseFilteredFullTable(code) ==
    IF code_to_char[code] # NoChar
    THEN SkipWhileNot(code_to_phrases[code], <<code_to_char[code]>>)
    ELSE code_to_phrases[code]

(***************************************************************************)
(* main.rs: WubiTable and the pipeline of main.                            *)
(***************************************************************************)
MaxLines == 4

Entry(p, c) == [phrase |-> p, wubi_code |-> c]

\* A line of CJK.txt after its split at the tabs: the number of fields, the
\* code point the first field names (-1 when it lacks "U+", -2 when no hex
\* number follows), the characters of the second field, the bytes of the third.
Line(n, cp, chars, wubi) == [fields |-> n, cp |-> cp, chars |-> chars, wubi |-> wubi]

IsAsciiLowercase(b) == b >= 97 /\ b <= 122

\* the byte loop and the count check shared by both line parsers
CodeFieldInvalid(wubi) ==
    \/ \E i \in 1..Len(wubi) : ~IsAsciiLowercase(wubi[i])
    \/ ~(Len(wubi) >= 1 /\ Len(wubi) <= 4)

\* parse_line_with_codepoint
ParseLineWithCodepoint(line) ==
    IF line.fields < 3 THEN Error("Invalid")
    ELSE IF Len(line.chars) # 1 THEN Error("Invalid")
    ELSE IF line.cp = -1 THEN Error("CodepointMismatch")
    ELSE IF line.cp = -2 THEN Error("ParseInt")
    ELSE IF line.cp # line.chars[1] THEN Error("CodepointMismatch")
    ELSE IF CodeFieldInvalid(line.wubi) THEN Error("Invalid")
    ELSE Ok(Entry(line.chars, line.wubi))

\* parse_line_without_codepoint
ParseLineWithoutCodepoint(line) ==
    IF line.fields < 2 THEN Error("Invalid")
    ELSE IF Len(line.chars) # 1 THEN Error("Invalid")
    ELSE IF CodeFieldInvalid(line.wubi) THEN Error("Invalid")
    ELSE Ok(Entry(line.chars, line.wubi))

\* slice::sort_by is stable: each element goes behind the elements that are
\* not greater than it.
StableInsert(x, t, notAfter) ==
    LET k == Cardinality(notAfter)
    IN  SubSeq(t, 1, k) \o <<x>> \o SubSeq(t, k + 1, Len(t))

PhraseLess(a, b) == LexLess(a.phrase, b.phrase)
PhraseThenLenLessNoLen(a, b) == LexLess(a.phrase, b.phrase)
PhraseThenLenLess(a, b) ==
    \/ LexLess(a.phrase, b.phrase)
    \/ (a.phrase = b.phrase /\ Len(a.wubi_code) < Len(b.wubi_code))
CodeLess(a, b) == CodeBytesLess(a.wubi_code, b.wubi_code)

\* entries.sort_by(|a, b| a.phrase.cmp(&b.phrase)), sort_by_key(phrase)
RECURSIVE SortByPhrase(_)
SortByPhrase(s) ==
    IF s = <<>> THEN <<>>
    ELSE LET x == s[Len(s)]
             t == SortByPhrase(SubSeq(s, 1, Len(s) - 1))
         IN  StableInsert(x, t, {i \in 1..Len(t) : ~PhraseLess(x, t[i])})

\* the sort of write_reverse_table: by phrase, then by the code's length
RECURSIVE SortByPhraseThenLen(_)
SortByPhraseThenLen(s) ==
    IF s = <<>> THEN <<>>
    ELSE LET x == s[Len(s)]
             t == SortByPhraseThenLen(SubSeq(s, 1, Len(s) - 1))
         IN  StableInsert(x, t, {i \in 1..Len(t) : ~PhraseThenLenLess(x, t[i])})

\* the sort of write_table: by the code's bytes
RECURSIVE SortByCode(_)
SortByCode(s) ==
    IF s = <<>> THEN <<>>
    ELSE LET x == s[Len(s)]
             t == SortByCode(SubSeq(s, 1, Len(s) - 1))
         IN  StableInsert(x, t, {i \in 1..Len(t) : ~CodeLess(x, t[i])})

\* unique_reverse_table's loop over the sorted entries
AdjacentPhrasesDiffer(s) == \A i \in 2..Len(s) : s[i - 1].phrase # s[i].phrase

\* binary_search_code: among the entries of the character, the code of
\* greatest length (Iterator::max_by_key gives the last of several).
BinarySearchCode(es, ch) ==
    LET hits == SelectSeq(es, LAMBDA e : e.phrase = <<ch>>)
        best == {i \in 1..Len(hits) :
                    \A j \in 1..Len(hits) :
                        /\ Len(hits[j].wubi_code) <= Len(hits[i].wubi_code)
                        /\ (j > i => Len(hits[j].wubi_code) < Len(hits[i].wubi_code))}
    IN  IF hits = <<>> THEN None ELSE Ok(hits[CHOOSE i \in best : TRUE].wubi_code)

\* entries.insert(entries.partition_point(|e| e.phrase < entry.phrase), entry)
InsertByPhrase(es, e) ==
    LET k == Cardinality({i \in 1..Len(es) : LexLess(es[i].phrase, e.phrase)})
    IN  SubSeq(es, 1, k) \o <<e>> \o SubSeq(es, k + 1, Len(es))

\* The loop of write_reverse_table: a line per run of equal phrases, a code
\* equal to the one written last left out.
RECURSIVE ReverseLines(_, _, _)
ReverseLines(es, last, out) ==
    IF es = <<>> THEN out
    ELSE LET e == Head(es)
         IN  IF e.phrase # last.phrase
             THEN ReverseLines(Tail(es), e,
                               Append(out, [key |-> e.phrase, codes |-> <<e.wubi_code>>]))
             ELSE IF e.wubi_code = last.wubi_code
             THEN ReverseLines(Tail(es), last, out)
             ELSE ReverseLines(Tail(es), e,
                               [out EXCEPT ![Len(out)].codes = Append(@, e.wubi_code)])

ReverseTableText(es) ==
    IF es = <<>> THEN <<>>
    ELSE ReverseLines(Tail(es), Head(es),
                      <<[key |-> Head(es).phrase, codes |-> <<Head(es).wubi_code>>]>>)

\* The loop of write_table: a line per run of equal codes, a phrase equal to
\* the one written last left out.
RECURSIVE TableLines(_, _, _)
TableLines(es, last, out) ==
    IF es = <<>> THEN out
    ELSE LET e == Head(es)
         IN  IF e.wubi_code # last.wubi_code
             THEN TableLines(Tail(es), e,
                             Append(out, [code |-> e.wubi_code, phrases |-> <<e.phrase>>]))
             ELSE IF e.phrase = last.phrase
             THEN TableLines(Tail(es), last, out)
             ELSE TableLines(Tail(es), e,
                             [out EXCEPT ![Len(out)].phrases = Append(@, e.phrase)])

TableText(es) ==
    IF es = <<>> THEN <<>>
    ELSE TableLines(Tail(es), Head(es),
                    <<[code |-> Head(es).wubi_code, phrases |-> <<Head(es).phrase>>]>>)

\* The lines the input files are drawn from: every pairing of two characters
\* with the codes a and ab, and lines each of the parsers' checks refuses.
MainChars == {CharX, CharY}
MainCodes == {<<97>>, <<97, 98>>}

OriginalLines ==
    {Line(3, ch, <<ch>>, w) : ch \in MainChars, w \in MainCodes}
    \cup {Line(1, CharX, <<CharX>>, <<97>>), Line(3, CharY, <<CharX>>, <<97>>),
          Line(3, -1, <<CharX>>, <<97>>), Line(3, -2, <<CharX>>, <<97>>),
          Line(3, CharX, <<CharX, CharY>>, <<97>>), Line(3, CharX, <<CharX>>, <<>>),
          Line(3, CharX, <<CharX>>, <<65>>)}

SimplifiedLines ==
    {Line(2, -1, <<ch>>, w) : ch \in MainChars, w \in MainCodes}
    \cup {Line(1, -1, <<CharX>>, <<97>>), Line(2, -1, <<>>, <<97>>),
          Line(2, -1, <<CharX>>, <<97, 97, 97, 97, 97>>)}

PhraseLines == {<<CharX>>, <<CharX, CharY>>, <<CharY, CharX, CharY>>,
                <<CharX, CharY, CharY, CharX, CharY>>}

NoFile == [written |-> FALSE, lines |-> <<>>]
File(lines) == [written |-> TRUE, lines |-> lines]
Read(kind, e) == [kind |-> kind, entry |-> e]

InitMain ==
    /\ pc = "original"
    /\ err = "none"
    /\ entries = <<>>
    /\ reading = <<>>
    /\ reverseOut = NoFile
    /\ tableOut = NoFile
    /\ history = <<>>

MainIdle ==
    /\ pc = "idle"
    /\ err = "none"
    /\ entries = <<>>
    /\ reading = <<>>
    /\ reverseOut = NoFile
    /\ tableOut = NoFile
    /\ history = <<>>

Running(at) == pc = at /\ err = "none"

\* one line of the closure of build_with_codepoint
ReadOriginalLine ==
    /\ Running("original")
    /\ Len(history) < MaxLines
    /\ \E line \in OriginalLines :
         LET r == ParseLineWithCodepoint(line)
         IN  IF r.ok
             THEN /\ reading' = Append(reading, r.val)
                  /\ history' = Append(history, Read("full", r.val))
                  /\ err' = err
             ELSE /\ err' = r.err
                  /\ UNCHANGED <<reading, history>>
    /\ UNCHANGED <<pc, entries, reverseOut, tableOut>>
    /\ UNCHANGED notMain

\* the end of the file: let mut table = WubiTable { entries }
EndOriginal ==
    /\ Running("original")
    /\ entries' = reading
    /\ reading' = <<>>
    /\ pc' = "unique"
    /\ UNCHANGED <<err, reverseOut, tableOut, history>>
    /\ UNCHANGED notMain

\* assert!(table.unique_reverse_table())
UniqueReverseTable ==
    /\ Running("unique")
    /\ entries' = SortByPhrase(entries)
    /\ IF AdjacentPhrasesDiffer(entries')
       THEN pc' = "simplified" /\ err' = err
       ELSE pc' = pc /\ err' = "assert"
    /\ UNCHANGED <<reading, reverseOut, tableOut, history>>
    /\ UNCHANGED notMain

\* one line of the closure of build_without_codepoint
ReadSimplifiedLine ==
    /\ Running("simplified")
    /\ Len(history) < MaxLines
    /\ \E line \in SimplifiedLines :
         LET r == ParseLineWithoutCodepoint(line)
         IN  IF r.ok
             THEN /\ reading' = Append(reading, r.val)
                  /\ history' = Append(history, Read("simplified", r.val))
                  /\ err' = err
             ELSE /\ err' = r.err
                  /\ UNCHANGED <<reading, history>>
    /\ UNCHANGED <<pc, entries, reverseOut, tableOut>>
    /\ UNCHANGED notMain

\* where main goes on after table.entries.extend(..)
AfterSimplifiedSkipReverse == "extend_sort"
AfterSimplified == "write_reverse"

\* the end of the file: table.entries.extend(..)
EndSimplified ==
    /\ Running("simplified")
    /\ entries' = entries \o reading
    /\ reading' = <<>>
    /\ pc' = AfterSimplified
    /\ UNCHANGED <<err, reverseOut, tableOut, history>>
    /\ UNCHANGED notMain

\* table.write_reverse_table(&mut reverse_table_file)
WriteReverseTable ==
    /\ Running("write_reverse")
    /\ entries' = SortByPhraseThenLen(entries)
    /\ reverseOut' = File(ReverseTableText(entries'))
    /\ pc' = "extend_sort"
    /\ UNCHANGED <<err, reading, tableOut, history>>
    /\ UNCHANGED notMain

\* the first statement of extend_phrases
ExtendPhrasesSort ==
    /\ Running("extend_sort")
    /\ entries' = SortByPhrase(entries)
    /\ pc' = "phrases"
    /\ UNCHANGED <<err, reading, reverseOut, tableOut, history>>
    /\ UNCHANGED notMain

\* one turn of the loop of extend_phrases
ExtendPhrase ==
    /\ Running("phrases")
    /\ Len(history) < MaxLines
    /\ \E ph \in PhraseLines :
         LET r == PhraseCodeBytes(ph, [ch \in MainChars |-> BinarySearchCode(entries, ch)])
         IN  IF r.ok
             THEN /\ entries' = InsertByPhrase(entries, Entry(ph, r.val))
                  /\ history' = Append(history, Read("phrase", Entry(ph, r.val)))
                  /\ err' = err
             ELSE IF r.err = "continue"
             THEN /\ history' = Append(history, Read("phrase", Entry(ph, <<>>)))
                  /\ UNCHANGED <<entries, err>>
             ELSE /\ err' = "panic"
                  /\ UNCHANGED <<entries, history>>
    /\ UNCHANGED <<pc, reading, reverseOut, tableOut>>
    /\ UNCHANGED notMain

\* the phrases are used up: extend_phrases returns
EndPhrases ==
    /\ Running("phrases")
    /\ pc' = "write_table"
    /\ UNCHANGED <<err, entries, reading, reverseOut, tableOut, history>>
    /\ UNCHANGED notMain

\* table.write_table(&mut table_file)
WriteTable ==
    /\ Running("write_table")
    /\ entries' = SortByCode(entries)
    /\ tableOut' = File(TableText(entries'))
    /\ pc' = "done"
    /\ UNCHANGED <<err, reading, reverseOut, history>>
    /\ UNCHANGED notMain

(***************************************************************************)
(* The specifications.                                                     *)
(***************************************************************************)
NextCode ==
    \/ Parse
    \/ Render
    \/ Reparse

NextOrder ==
    \/ CompareIndex
    \/ CompareBytes

NextPhrase ==
    \/ EncodeIndex
    \/ EncodeBytes

NextTable ==
    \/ SimplifiedInsert
    \/ FullInsert

NextMain ==
    \/ ReadOriginalLine
    \/ EndOriginal
    \/ UniqueReverseTable
    \/ ReadSimplifiedLine
    \/ EndSimplified
    \/ WriteReverseTable
    \/ ExtendPhrasesSort
    \/ ExtendPhrase
    \/ EndPhrases
    \/ WriteTable

\* the pipeline of main
Init == InitMain /\ CodeIdle /\ OrderIdle /\ PhraseIdle /\ TableIdle
Next == NextMain
Spec == Init /\ [][Next]_vars

\* the code encoder on sampled byte strings
SpecCodeInit == InitCode /\ OrderIdle /\ PhraseIdle /\ TableIdle /\ MainIdle
SpecCode == SpecCodeInit /\ [][NextCode]_vars

\* the two orders on pairs of sampled codes
SpecOrderInit == InitOrder /\ CodeIdle /\ PhraseIdle /\ TableIdle /\ MainIdle
SpecOrder == SpecOrderInit /\ [][NextOrder]_vars

\* the phrase encoder on sampled phrases
SpecPhraseInit == InitPhrase /\ CodeIdle /\ OrderIdle /\ TableIdle /\ MainIdle
SpecPhrase == SpecPhraseInit /\ [][NextPhrase]_vars

\* the tables of table.rs under any sequence of inserts
SpecTableInit == InitTable /\ CodeIdle /\ OrderIdle /\ PhraseIdle /\ MainIdle
SpecTable == SpecTableInit /\ [][NextTable]_vars

(***************************************************************************)
(* The code encoder's claims (SpecCode, SpecOrder).                        *)
(***************************************************************************)

\* C1: round trip of the code encoder.  For every string s of 1 to 4 letters
\* of a..y, render(parse(s)) = s; and for every code c that parse produced,
\* parse(render(c)) = c.
C1_RoundTrip ==
    /\ (IsValidCodeString(value) /\ rendered # None) => rendered = Ok(value)
    /\ reparsed # None => (parsed.ok /\ reparsed = parsed)

\* a 3-letter code has been parsed, rendered and parsed again
C1_Witness ==
    /\ Len(value) = 3
    /\ IsValidCodeString(value)
    /\ rendered # None
    /\ reparsed # None

\* C10: parse accepts exactly the byte strings of 1 to 4 bytes of a..y and
\* gives an index in [0, 26^4), yyyy giving 26^4 - 1; the empty input fails
\* with Empty, an input of more than 4 bytes with TooLongCode, an input of
\* 1 to 4 bytes with a byte outside a..y (z and NUL among them) with
\* NotValidChar.
C10_ParseAccepts ==
    parsed # None =>
        /\ parsed.ok <=> IsValidCodeString(value)
        /\ parsed.ok => (parsed.val >= 0 /\ parsed.val < INDEX_UPPER_BOUND)
        /\ value = <<121, 121, 121, 121>> => parsed = Ok(INDEX_UPPER_BOUND - 1)
        /\ Len(value) = 0 => parsed = Error("Empty")
        /\ Len(value) > 4 => parsed = Error("TooLongCode")
        /\ (Len(value) \in 1..4 /\ \E i \in 1..Len(value) : value[i] \notin 97..121)
             => parsed = Error("NotValidChar")

\* parse has refused a 2-byte input for its z
C10_Witness ==
    /\ value = <<97, 122>>
    /\ parsed = Error("NotValidChar")

\* C9: for two valid code strings s1 and s2, index(parse(s1)) <
\* index(parse(s2)) exactly when s1 precedes s2 in the byte-lexicographic
\* order in which a proper prefix precedes its extensions (the order of Vec<u8>,
\* by which write_table sorts).
C9_OrderingIdentity ==
    (byIndex # None /\ byBytes # None) => byIndex = byBytes

\* a code and one of its extensions have been compared both ways
C9_Witness ==
    /\ Len(lhs) < Len(rhs)
    /\ lhs = SubSeq(rhs, 1, Len(lhs))
    /\ byIndex = Ok(TRUE)
    /\ byBytes = Ok(TRUE)

(***************************************************************************)
(* The phrase encoder's claim (SpecPhrase).                                *)
(***************************************************************************)
\* the letter at place k of a code string as a base-26 digit, 0 where the
\* code has no letter there
Slot(s, k) == IF k <= Len(s) THEN s[k] - 96 ELSE 0

Digits(index) ==
    <<index \div (26 ^ 3), (index \div (26 ^ 2)) % 26, (index \div 26) % 26, index % 26>>

\* the places the splicing rule takes: <<character of the phrase, letter>>
SplicePlaces(n) ==
    IF n = 2 THEN <<<<1, 1>>, <<1, 2>>, <<2, 1>>, <<2, 2>>>>
    ELSE IF n = 3 THEN <<<<1, 1>>, <<2, 1>>, <<3, 1>>, <<3, 2>>>>
    ELSE <<<<1, 1>>, <<2, 1>>, <<3, 1>>, <<n, 1>>>>

SplicedSlots(ph, codes) ==
    [k \in 1..4 |-> Slot(codes[ph[SplicePlaces(Len(ph))[k][1]]], SplicePlaces(Len(ph))[k][2])]

\* every letter the rule takes is there
HasSplicedLetters(ph, codes) == \A k \in 1..4 : SplicedSlots(ph, codes)[k] # 0

\* C2: for a phrase of L >= 2 characters that all have a code, the computed
\* code holds, for L = 2, the first 2 letters of c1 and then the first 2
\* letters of c2; for L = 3, the first letter of c1, the first letter of c2
\* and the first 2 letters of c3; for L >= 4, the first letters of c1, c2, c3
\* and of the last character's code.  get_code_for_phrase puts these letters
\* at the four places of the index (a place stays empty where the code has
\* no such letter); extend_phrases computes a code exactly when all of them
\* are there, and it is then the code of these four letters.
C2_PhraseSplicing ==
    /\ (phraseIndex # None /\ Len(phrase) >= 2)
         => /\ phraseIndex.ok
            /\ Digits(phraseIndex.val) = SplicedSlots(phrase, charCodes)
    /\ (phraseBytes # None /\ Len(phrase) >= 2)
         => /\ phraseBytes.ok <=> HasSplicedLetters(phrase, charCodes)
            /\ phraseBytes.ok =>
                 /\ Len(phraseBytes.val) = 4
                 /\ \A k \in 1..4 : phraseBytes.val[k] - 96 = SplicedSlots(phrase, charCodes)[k]
                 /\ phraseIndex # None => phraseIndex = TryFrom(phraseBytes.val)
    /\ (phraseIndex # None /\ charCodes = FullLengthCodes)
         => /\ phrase = <<19968, 19969>> => phraseIndex = TryFrom(<<97, 98, 101, 102>>)
            /\ phrase = <<19968, 19969, 19970>> => phraseIndex = TryFrom(<<97, 101, 105, 106>>)
            /\ phrase = <<19968, 19969, 19970, 19971, 19972>>
                 => phraseIndex = TryFrom(<<97, 101, 105, 113>>)

\* the 5-character phrase of codes abcd, efgh, ijkl, mnop, qrst has been
\* encoded both ways
C2_Witness ==
    /\ charCodes = FullLengthCodes
    /\ phrase = <<19968, 19969, 19970, 19971, 19972>>
    /\ phraseIndex # None
    /\ phraseBytes = Ok(<<97, 101, 105, 113>>)

\* C12: for every phrase of 2 or more characters and every assignment of
\* valid codes of 1 to 4 letters to its characters, the phrase encoder's
\* result is a fully-formed 4-letter code: get_code_for_phrase gives an index
\* whose four base-26 digits are all non-zero, which renders to 4 letters
\* and parses back to itself, and extend_phrases gives 4 valid letters.
C12_FullyFormed ==
    /\ (phraseIndex # None /\ Len(phrase) >= 2)
         => /\ phraseIndex.ok
            /\ \A k \in 1..4 : Digits(phraseIndex.val)[k] # 0
            /\ From(phraseIndex.val).ok
            /\ Len(From(phraseIndex.val).val) = 4
            /\ TryFrom(From(phraseIndex.val).val) = phraseIndex
    /\ (phraseBytes # None /\ Len(phrase) >= 2)
         => /\ phraseBytes.ok
            /\ Len(phraseBytes.val) = 4
            /\ IsValidCodeString(phraseBytes.val)

(***************************************************************************)
(* The tables' claims (SpecTable).                                         *)
(***************************************************************************)
Count(list, x) == Cardinality({i \in 1..Len(list) : list[i] = x})

\* every populated slot of code_to_char holds a character of the accepted range
SlotsInRange == \A c \in TableCodes : code_to_char[c] = NoChar \/ InRange(code_to_char[c])

\* the stored list without the single-character phrases equal to s
WithoutChar(list, s) == SelectSeq(list, LAMBDA p : p # <<s>>)

\* C3: for every code the filtered full view is the stored list
\* code_to_phrases[code], in stored order, without exactly the
\* single-character phrases equal to the code's simplified character; every
\* other phrase stays, and all phrases pass when the code has no simplified
\* character.
C3_OverlapFilter ==
    (~Panicked /\ SlotsInRange) =>
        \A code \in TableCodes :
            ReverseFilteredFullTable(code) =
                IF code_to_char[code] # NoChar
                THEN WithoutChar(code_to_phrases[code], code_to_char[code])
                ELSE code_to_phrases[code]

\* C6: after any sequence of insert(code, ch) calls, successful or failing,
\* code_to_char[c] = x exactly when c is in char_to_codes[x] (the list of a
\* character outside the range is empty: code_of_char gives None for it).
C6_SimplifiedCoupling ==
    ~Panicked =>
        \A c \in TableCodes, x \in TableChars :
            (code_to_char[c] = x) <=> (InRange(x) /\ c \in Elems(char_to_code[x]))

\* C7: FullCodeTable::insert of a phrase that phrase_to_code holds is
\* refused by a panic that changes nothing, so after any sequence of inserts
\* every stored phrase has one code and stands exactly once in all of
\* code_to_phrases, in code_to_phrases[phrase_to_code[phrase]]; a phrase that
\* is no key stands nowhere.
C7_FullCoupling ==
    \A p \in TablePhrases, c \in TableCodes :
        Count(code_to_phrases[c], p) = IF phrase_to_code[p] = c THEN 1 ELSE 0

\* an insert of a stored phrase has been refused, with another phrase stored
\* under the same code
C7_Witness ==
    /\ tableResult = "panic: phrase exists"
    /\ \E c \in FullCodes : Len(code_to_phrases[c]) = 2

\* a step of SimplifiedCodeTable::insert(code, ch) on a table whose slot
\* code_to_char[code] is set
InsertOnSetSlot(code, ch) ==
    /\ ~Panicked
    /\ code_to_char[code] # NoChar
    /\ SimplifiedInsertBody(code, ch)

\* C11 as stated: SimplifiedCodeTable::insert(code, ch) on a code whose slot
\* is set fails with the error DuplicateCode and leaves code_to_char and
\* char_to_codes unchanged.
C11_DuplicateCode ==
    [][\A code \in SimplifiedCodes, ch \in TableChars :
          InsertOnSetSlot(code, ch) =>
              /\ tableResult' = "DuplicateCode"
              /\ UNCHANGED <<code_to_char, char_to_code>>]_vars

\* C11, amended: SimplifiedCodeTable::insert(code, ch) on a code whose slot
\* is set fails with the error Invalid and leaves code_to_char and
\* char_to_codes unchanged, and no step of the table changes a slot that is
\* set: of two characters inserted under one code the first one stays.
C11_DuplicateInvalid ==
    [][/\ \A code \in SimplifiedCodes, ch \in TableChars :
             InsertOnSetSlot(code, ch) =>
                 /\ tableResult' = "Invalid"
                 /\ UNCHANGED <<code_to_char, char_to_code>>
       /\ \A code \in TableCodes :
             code_to_char[code] # NoChar => code_to_char'[code] = code_to_char[code]]_vars

\* an insert under the one code that is set, CharX's, has been refused: the
\* code is still CharX's, and CharY has no code
C11_Witness ==
    /\ tableResult = "Invalid"
    /\ \E code \in SimplifiedCodes :
          /\ code_to_char[code] = CharX
          /\ char_to_code[CharX] = <<code>>
          /\ \A c \in TableCodes \ {code} : code_to_char[c] = NoChar
    /\ char_to_code[CharY] = <<>>

(***************************************************************************)
(* The pipeline's claims (Spec).                                           *)
(***************************************************************************)
\* the entries read so far of the given kinds, in reading order
Loaded(kinds) ==
    LET hs == SelectSeq(history, LAMBDA h : h.kind \in kinds /\ h.entry.wubi_code # <<>>)
    IN  [i \in 1..Len(hs) |-> hs[i].entry]

Kinds == {history[i].kind : i \in 1..Len(history)}

StrictlyAscending(keys) == \A i \in 1..Len(keys) - 1 : LexLess(keys[i], keys[i + 1])

\* C4: wb_nc_table.txt has exactly one line per code that has a simplified
\* character or a full phrase left by the overlap filter, the lines are in
\* strictly ascending code order, and on the line of a code that has both (one
\* simplified character) that character comes first and the full phrases
\* follow in the order they are stored in.
C4_ForwardEmission ==
    tableOut.written =>
        LET lines == tableOut.lines
            all == Loaded({"full", "simplified", "phrase"})
            simp(code) == {e.phrase : e \in {x \in Elems(Loaded({"simplified"})) :
                                                x.wubi_code = code}}
            full(code) == SelectSeq(entries, LAMBDA e :
                              /\ e.wubi_code = code
                              /\ e \in Elems(Loaded({"full", "phrase"})))
            stored(code) == [i \in 1..Len(full(code)) |-> full(code)[i].phrase]
        IN  /\ {lines[i].code : i \in 1..Len(lines)} = {e.wubi_code : e \in Elems(all)}
            /\ StrictlyAscending([i \in 1..Len(lines) |-> lines[i].code])
            /\ \A i \in 1..Len(lines) :
                 \A s \in simp(lines[i].code) :
                     simp(lines[i].code) = {s} =>
                         /\ lines[i].phrases[1] = s
                         /\ Elems(lines[i].phrases) = {s} \cup Elems(stored(lines[i].code))

\* the characters read before the reverse table is written
ReverseKeys == {e.phrase : e \in Elems(Loaded({"full", "simplified"}))}

SimplifiedCodesOf(key) ==
    LET es == SelectSeq(Loaded({"simplified"}), LAMBDA e : e.phrase = key)
    IN  [i \in 1..Len(es) |-> es[i].wubi_code]

FullCodesOf(key) ==
    LET es == SelectSeq(Loaded({"full"}), LAMBDA e : e.phrase = key)
    IN  [i \in 1..Len(es) |-> es[i].wubi_code]

OneLinePerKeyAscending ==
    LET lines == reverseOut.lines
    IN  /\ {lines[i].key : i \in 1..Len(lines)} = ReverseKeys
        /\ StrictlyAscending([i \in 1..Len(lines) |-> lines[i].key])

ClaimedRank(kind) == IF kind = "simplified" THEN 1 ELSE IF kind = "full" THEN 2 ELSE 3
MainRank(kind) == IF kind = "full" THEN 1 ELSE IF kind = "simplified" THEN 2 ELSE 3

LoadsCompleted == err = "none" /\ pc \in {"write_table", "done"}

====
